---- MODULE Spec2Model ----
(***************************************************************************)
(* State-machine model of the page controller in src/static/js/app.js:     *)
(* single-select chip groups, numeric steppers, the two-view switch, the   *)
(* transcript, and the three request/response flows (profile, onboarding,  *)
(* chat) as they interleave on the browser's event loop.                   *)
(*                                                                         *)
(* A JavaScript string is a sequence of one-character strings, so that     *)
(* trim(), parseInt() and String() are computed character by character.    *)
(* A JavaScript number is a record [nan, v]: NaN is [nan |-> TRUE, v |-> 0]*)
(* and an integer i is [nan |-> FALSE, v |-> i].                           *)
(***************************************************************************)
EXTENDS Integers, Sequences, FiniteSets, TLC

VARIABLES
    dom,          \* the static markup: input attributes, stepper buttons, chips
    value,        \* value of each form input (weight, height, age)
    active,       \* per chip group, the set of chips carrying class 'active'
    chipHandlers, \* per chip group, the number of click listeners on each chip
    stepHandlers, \* TRUE once setupSteppers has registered the click listeners
    pc,           \* where initialize() stands: loading, awaitProfile, ready, failed
    hidden,       \* per view section, whether it carries class 'hidden'
    messages,     \* the transcript: the children of #messages, in order
    chatInput,    \* value of #chatInput
    sendDisabled, \* #sendBtn.disabled
    reqs,         \* every request issued so far, in issue order, with its outcome
    alerts,       \* the texts passed to alert(), in order
    shows,        \* the showOnboarding()/showChat() calls made so far, in order
    clicks,       \* number of form edits so far (bounded exploration)
    picked,       \* per chip group, the chip the user clicked last (0: none yet)
    last          \* the event handled last: [ev, a, n, text]

widgetVars == <<value, active, chipHandlers, stepHandlers, picked>>

flowVars == <<pc, hidden, messages, chatInput, sendDisabled, reqs, alerts, shows>>

vars == <<dom, value, active, chipHandlers, stepHandlers, pc, hidden, messages,
          chatInput, sendDisabled, reqs, alerts, shows, clicks, picked, last>>

-----------------------------------------------------------------------------
(* Bounds of the exploration *)

MaxClicks == 3

MaxReqs == 4

MaxCalls == 6

MaxConfigs == 2

-----------------------------------------------------------------------------
(* JavaScript strings and numbers *)

NaN == [nan |-> TRUE, v |-> 0]

Num(i) == [nan |-> FALSE, v |-> i]

DigitChars == <<"0", "1", "2", "3", "4", "5", "6", "7", "8", "9">>

IsDigit(c) == \E i \in 1..10 : DigitChars[i] = c

DigitVal(c) == (CHOOSE i \in 1..10 : DigitChars[i] = c) - 1

\* the characters of the model are ASCII; among them the white space that
\* trim() and parseInt() strip (StrWhiteSpaceChar) is space, tab, LF, CR, FF
\* and VT (the last literal below holds the one character U+000B).  The
\* white space outside ASCII (U+00A0, U+1680, U+2000..U+200A, U+2028,
\* U+2029, U+202F, U+205F, U+3000, U+FEFF) is not in the model's alphabet.
WhiteSpaceChars == {" ", "\t", "\n", "\r", "\f", ""}

IsSpace(c) == c \in WhiteSpaceChars

\* a || b on strings: the empty string (and an absent attribute) is falsy
OrElse(a, b) == IF a = <<>> THEN b ELSE a

RECURSIVE TrimStart(_)
TrimStart(s) ==
    IF s # <<>> /\ IsSpace(Head(s)) THEN TrimStart(Tail(s)) ELSE s

RECURSIVE TrimEnd(_)
TrimEnd(s) ==
    IF s # <<>> /\ IsSpace(s[Len(s)]) THEN TrimEnd(SubSeq(s, 1, Len(s) - 1)) ELSE s

\* variants of Trim: only the leading white space goes; nothing goes
TrimStartOnly(s) == TrimStart(s)

TrimNone(s) == s

\* String.prototype.trim
Trim(s) == TrimEnd(TrimStart(s))

\* the longest prefix of s made of decimal digits
RECURSIVE DigitPrefix(_)
DigitPrefix(s) ==
    IF s # <<>> /\ IsDigit(Head(s)) THEN <<Head(s)>> \o DigitPrefix(Tail(s)) ELSE <<>>

RECURSIVE DigitsValue(_)
DigitsValue(ds) ==
    IF ds = <<>> THEN 0
    ELSE 10 * DigitsValue(SubSeq(ds, 1, Len(ds) - 1)) + DigitVal(ds[Len(ds)])

\* parseInt(s, 10): leading white space, an optional sign, then digits up to
\* the first non-digit; NaN when there is no digit
ParseInt(s) ==
    LET t    == TrimStart(s)
        neg  == t # <<>> /\ Head(t) = "-"
        sgn  == t # <<>> /\ Head(t) \in {"-", "+"}
        body == IF sgn THEN Tail(t) ELSE t
        ds   == DigitPrefix(body)
    IN  IF ds = <<>> THEN NaN
        ELSE Num(IF neg THEN 0 - DigitsValue(ds) ELSE DigitsValue(ds))

RECURSIVE NatToStr(_)
NatToStr(n) ==
    IF n < 10 THEN <<DigitChars[n + 1]>>
    ELSE NatToStr(n \div 10) \o <<DigitChars[(n % 10) + 1]>>

\* String(x) of a number
NumToStr(x) ==
    IF x.nan THEN <<"N", "a", "N">>
    ELSE IF x.v < 0 THEN <<"-">> \o NatToStr(0 - x.v)
    ELSE NatToStr(x.v)

\* a + b, a * b and a < b, a > b on numbers: NaN is absorbing for the
\* arithmetic and makes every comparison false
Add(a, b) == IF a.nan \/ b.nan THEN NaN ELSE Num(a.v + b.v)

Mul(a, b) == IF a.nan \/ b.nan THEN NaN ELSE Num(a.v * b.v)

Lt(a, b) == ~a.nan /\ ~b.nan /\ a.v < b.v

Gt(a, b) == ~a.nan /\ ~b.nan /\ a.v > b.v

-----------------------------------------------------------------------------
(* The document.  The markup is static; the model draws it at Init.        *)

Null == <<"<null>">>

InputIds == {"weight", "height", "age"}

GroupIds == {"gender", "main_goal", "experience", "days_per_week",
             "minutes_per_workout", "injuries_yes_no"}

Undefined == <<"<undefined>">>

Event(e, x, i, t) == [ev |-> e, a |-> x, n |-> i, text |-> t]

NoEvent == Event("none", "", 0, <<>>)

\* the user operates a control only while the section holding it is shown
UserCanUse(section) == ~hidden[section]

-----------------------------------------------------------------------------
(* setupSteppers: the click listener of one stepper button *)

\* assignment to input.value: a number input keeps only a valid number
\* (value sanitization), a text input keeps the string
SetValue(type, s) == IF type = "number" /\ s = NumToStr(NaN) THEN <<>> ELSE s

\* variant of Clamp: the upper limit is not applied
ClampNoUpper(val, min, max) == IF Lt(val, min) THEN min ELSE val

\* if (val < min) val = min; if (val > max) val = max;
Clamp(val, min, max) ==
    LET v1 == IF Lt(val, min) THEN min ELSE val
    IN  IF Gt(v1, max) THEN max ELSE v1

\* the numbers the listener reads from the button and the input
StepDelta(btn) == ParseInt(OrElse(btn.step, <<"0">>))

InputMin(attrs) == ParseInt(OrElse(attrs.min, <<"-", "9", "9", "9", "9">>))

InputMax(attrs) == ParseInt(OrElse(attrs.max, <<"9", "9", "9", "9">>))

InputStep(attrs) == ParseInt(OrElse(attrs.step, <<"1">>))

InputVal(cur) == ParseInt(OrElse(cur, <<"0">>))

\* the value the listener of button btn writes to its target input
StepperNewValue(btn, attrs, cur) ==
    Clamp(Add(InputVal(cur), Mul(StepDelta(btn), InputStep(attrs))),
          InputMin(attrs), InputMax(attrs))

\* a click on stepper button btn; when the target input does not exist the
\* listener throws at input.min and changes nothing
StepperClick(btn) ==
    /\ stepHandlers
    /\ UserCanUse("onboarding")
    /\ clicks < MaxClicks
    /\ clicks' = clicks + 1
    /\ IF btn.target \in DOMAIN dom.inputs
       THEN /\ value' = [value EXCEPT ![btn.target] =
                    SetValue(dom.inputs[btn.target].type,
                             NumToStr(StepperNewValue(btn, dom.inputs[btn.target], @)))]
            /\ last' = Event("stepper", btn.target, 0, btn.step)
       ELSE /\ value' = value
            /\ last' = Event("stepperThrew", btn.target, 0, btn.step)
    /\ UNCHANGED <<dom, active, chipHandlers, stepHandlers, picked>>
    /\ UNCHANGED flowVars

-----------------------------------------------------------------------------
(* setChipGroupSingle, the chip click listener, getActiveValue.            *)
(* dom.chips[g] is the list of the data-value strings of the chips of      *)
(* container g in document order; a chip is its index in that list.        *)

\* chips.find(c => c.dataset.value == String(defaultVal)): the first match, 0 if none
FindChip(chips, defaultVal) ==
    IF \E i \in 1..Len(chips) : chips[i] = defaultVal
    THEN CHOOSE i \in 1..Len(chips) :
            /\ chips[i] = defaultVal
            /\ \A j \in 1..(i - 1) : chips[j] # defaultVal
    ELSE 0

\* the active sets after setChipGroupSingle(g, defaultVal); a null (or empty)
\* default and a missing container leave them as they are
ConfigureActive(act, g, defaultVal) ==
    IF g \notin DOMAIN dom.chips THEN act
    ELSE IF defaultVal = Null \/ defaultVal = <<>> THEN act
    ELSE LET d == FindChip(dom.chips[g], defaultVal)
         IN  IF d = 0 THEN act ELSE [act EXCEPT ![g] = @ \cup {d}]

\* the listener counts after setChipGroupSingle(g, ...): every call adds one
\* more listener to each chip of the group
ConfigureHandlers(hs, g) ==
    IF g \notin DOMAIN dom.chips THEN hs ELSE [hs EXCEPT ![g] = @ + 1]

\* variant of ChipClicked: the siblings keep 'active'
ChipClickedKeep(act, g, c) == [act EXCEPT ![g] = @ \cup {c}]

\* the listener of chip c of group g: every chip of the group loses 'active',
\* then c gets it
ChipClicked(act, g, c) == [act EXCEPT ![g] = (@ \ (1..Len(dom.chips[g]))) \cup {c}]

\* a click on chip c of group g runs each of its n listeners in turn
RECURSIVE RunListeners(_, _, _, _)
RunListeners(act, g, c, n) ==
    IF n = 0 THEN act ELSE ChipClicked(RunListeners(act, g, c, n - 1), g, c)

ChipClick(g, c) ==
    /\ g \in DOMAIN dom.chips
    /\ chipHandlers[g] > 0
    /\ c \in 1..Len(dom.chips[g])
    /\ UserCanUse("onboarding")
    /\ clicks < MaxClicks
    /\ clicks' = clicks + 1
    /\ active' = RunListeners(active, g, c, chipHandlers[g])
    /\ picked' = [picked EXCEPT ![g] = c]
    /\ last' = Event("chip", g, c, dom.chips[g][c])
    /\ UNCHANGED <<dom, value, chipHandlers, stepHandlers>>
    /\ UNCHANGED flowVars

\* variant of GetActiveValue: the first chip of the group, active or not
GetActiveValueFirst(g) ==
    IF g \notin DOMAIN dom.chips THEN Null ELSE dom.chips[g][1]

\* getActiveValue(g): the value of the first active chip in document order
GetActiveValue(g) ==
    IF g \notin DOMAIN dom.chips THEN Null
    ELSE IF active[g] = {} THEN Null
    ELSE dom.chips[g][CHOOSE i \in active[g] : \A j \in active[g] : i <= j]

-----------------------------------------------------------------------------
(* Requests and responses.  reqs[i] is the i-th request issued:            *)
(* kind, body, state (pending, resolved, rejected), the response it        *)
(* resolved with, and for a chat request the transcript positions of its   *)
(* user message (at) and of the assistant message it produced (replyAt).   *)

Resp(ok, profile, summary, reply, error) ==
    [ok |-> ok, profile |-> profile, profile_summary |-> summary,
     reply |-> reply, error |-> error]

NoResp == Resp(FALSE, FALSE, Undefined, Undefined, Undefined)

Request(kind, body, at) ==
    [kind |-> kind, body |-> body, state |-> "pending", resp |-> NoResp,
     at |-> at, replyAt |-> 0]

\* fetch(...): the request is issued when the api function is called
Fetch(rs, kind, body, at) == Append(rs, Request(kind, body, at))

Pending(kind) == {i \in 1..Len(reqs) : reqs[i].kind = kind /\ reqs[i].state = "pending"}

Issued(kind) == {i \in 1..Len(reqs) : reqs[i].kind = kind}

Settle(rs, i, st, r, pos) ==
    [rs EXCEPT ![i].state = st, ![i].resp = r, ![i].replyAt = pos]

\* `${x}` and x || fallback
TemplateText(x) ==
    IF x = Undefined THEN <<"undefined">>
    ELSE IF x = Null THEN <<"null">>
    ELSE x

OrText(x, fallback) == IF x = Undefined \/ x = Null \/ x = <<>> THEN fallback ELSE x

\* JSON.stringify of a number: NaN is written as null
JsonNum(x) == IF x.nan THEN Null ELSE NumToStr(x)

-----------------------------------------------------------------------------
(* showOnboarding, showChat, addMessage *)

ShowOnboarding(h) == [h EXCEPT !["onboarding"] = FALSE, !["chat"] = TRUE]

\* variant of ShowChat: the onboarding section is left as it is
ShowChatOnly(h) == [h EXCEPT !["chat"] = FALSE]

ShowChat(h) == [h EXCEPT !["onboarding"] = TRUE, !["chat"] = FALSE]

\* bubble.textContent = text: null and undefined give the empty string
TextContent(text) == IF text = Undefined \/ text = Null THEN <<>> ELSE text

\* variant of AddMessage: the new message is put first
AddMessageFront(msgs, role, text) ==
    <<[role   |-> role,
       avatar |-> IF role = "assistant" THEN "GB" ELSE "You",
       text   |-> IF text = Undefined \/ text = Null THEN <<>> ELSE text]>> \o msgs

AddMessage(msgs, role, text) ==
    Append(msgs, [role   |-> role,
                  avatar |-> IF role = "assistant" THEN "GB" ELSE "You",
                  text   |-> TextContent(text)])

\* variant of WelcomeText: the summary is left out
WelcomeTextBare(summary) == <<"Welcome back.">>

WelcomeText(summary) == <<"Welcome back. Profile: ">> \o TemplateText(summary)

\* variant of ProfileText: the summary is left out
ProfileTextBare(summary) == <<"Your profile.">>

ProfileText(summary) == <<"Your profile: ">> \o TemplateText(summary)

FieldsFallback == <<"Please complete the required fields.">>

ReplyFallback == <<"Error generating reply.">>

NetworkError == <<"Network error.">>

-----------------------------------------------------------------------------
(* initialize(): the synchronous part, up to the await of apiProfile() *)

Male == <<"m", "a", "l", "e">>

Hypertrophy == <<"h", "y", "p", "e", "r", "t", "r", "o", "p", "h", "y">>

Beginner == <<"b", "e", "g", "i", "n", "n", "e", "r">>

No == <<"n", "o">>

Yes == <<"y", "e", "s">>

\* the default value initialize() passes for each group
DefaultOf(g) ==
    CASE g = "gender"              -> Male
      [] g = "main_goal"           -> Hypertrophy
      [] g = "experience"          -> Beginner
      [] g = "days_per_week"       -> <<"4">>
      [] g = "minutes_per_workout" -> <<"6", "0">>
      [] g = "injuries_yes_no"     -> No

\* the order of the six setChipGroupSingle calls
GroupOrder == <<"gender", "main_goal", "experience", "days_per_week",
                "minutes_per_workout", "injuries_yes_no">>

RECURSIVE ConfigureAll(_, _)
ConfigureAll(act, k) ==
    IF k = 0 THEN act
    ELSE ConfigureActive(ConfigureAll(act, k - 1), GroupOrder[k], DefaultOf(GroupOrder[k]))

RECURSIVE ConfigureAllHandlers(_, _)
ConfigureAllHandlers(hs, k) ==
    IF k = 0 THEN hs
    ELSE ConfigureHandlers(ConfigureAllHandlers(hs, k - 1), GroupOrder[k])

DOMContentLoaded ==
    /\ pc = "loading"
    /\ stepHandlers' = TRUE
    /\ active' = ConfigureAll(active, Len(GroupOrder))
    /\ chipHandlers' = ConfigureAllHandlers(chipHandlers, Len(GroupOrder))
    /\ reqs' = Fetch(reqs, "profile", <<>>, 0)
    /\ pc' = "awaitProfile"
    /\ last' = Event("load", "", 0, <<>>)
    /\ UNCHANGED <<dom, value, hidden, messages, chatInput, sendDisabled, alerts, shows, clicks, picked>>

(* initialize(): the continuation after apiProfile() resolves with body p; *)
(* the start, send and keydown listeners are registered at its end         *)
\* variant of ProfileBranch: the profile is not looked at
ProfileBranchOkOnly(p) == IF p.ok THEN "chat" ELSE "onboarding"

ProfileBranch(p) == IF p.ok /\ p.profile THEN "chat" ELSE "onboarding"

ProfileResolved(p) ==
    /\ pc = "awaitProfile"
    /\ \E i \in Pending("profile") :
          reqs' = Settle(reqs, i, "resolved", p,
                         IF ProfileBranch(p) = "chat" THEN Len(messages) + 1 ELSE 0)
    /\ IF ProfileBranch(p) = "chat"
       THEN /\ hidden' = ShowChat(hidden)
            /\ shows' = Append(shows, "chat")
            /\ messages' = AddMessage(messages, "assistant", WelcomeText(p.profile_summary))
       ELSE /\ hidden' = ShowOnboarding(hidden)
            /\ shows' = Append(shows, "onboarding")
            /\ messages' = messages
    /\ pc' = "ready"
    /\ last' = Event("profile", ProfileBranch(p), 1, p.profile_summary)
    /\ UNCHANGED <<dom, chatInput, sendDisabled, alerts, clicks>>
    /\ UNCHANGED widgetVars

\* the fetch rejects, or the body is not a JSON object: initialize() rejects
\* at the await (or at p.ok) and nothing after it runs
ProfileRejected ==
    /\ pc = "awaitProfile"
    /\ \E i \in Pending("profile") : reqs' = Settle(reqs, i, "rejected", NoResp, 0)
    /\ pc' = "failed"
    /\ last' = Event("profile", "rejected", 1, <<>>)
    /\ UNCHANGED <<dom, hidden, messages, chatInput, sendDisabled, alerts, shows, clicks>>
    /\ UNCHANGED widgetVars

\* variant of ListenersRegistered: the listeners are added before the await
ListenersRegisteredEarly == pc \in {"awaitProfile", "ready"}

\* the start, send and keydown listeners exist once initialize() has run to
\* its end, that is once the continuation after the await has run
ListenersRegistered == pc = "ready"

\* a click on #startBtn or #sendBtn, or Enter in #chatInput, while the
\* control has no listener: no code runs
UnheardEvent(ctl) ==
    /\ ~ListenersRegistered
    /\ UserCanUse(IF ctl = "start" THEN "onboarding" ELSE "chat")
    /\ last' = Event("unheard", ctl, 0, <<>>)
    /\ UNCHANGED <<dom, clicks>>
    /\ UNCHANGED flowVars
    /\ UNCHANGED widgetVars

-----------------------------------------------------------------------------
(* The start flow: the click listener of #startBtn *)

Payload ==
    [weight_kg           |-> JsonNum(ParseInt(value["weight"])),
     height_cm           |-> JsonNum(ParseInt(value["height"])),
     age                 |-> JsonNum(ParseInt(value["age"])),
     gender              |-> GetActiveValue("gender"),
     main_goal           |-> GetActiveValue("main_goal"),
     experience          |-> GetActiveValue("experience"),
     days_per_week       |-> JsonNum(ParseInt(GetActiveValue("days_per_week"))),
     minutes_per_workout |-> JsonNum(ParseInt(GetActiveValue("minutes_per_workout"))),
     injuries_yes_no     |-> (GetActiveValue("injuries_yes_no") = Yes),
     injuries_details    |-> Trim(value["injuries_details"])]

StartClick ==
    /\ ListenersRegistered
    /\ UserCanUse("onboarding")
    /\ Len(reqs) < MaxReqs
    /\ reqs' = Fetch(reqs, "onboarding", Payload, 0)
    /\ last' = Event("start", "", Len(reqs) + 1, <<>>)
    /\ UNCHANGED <<dom, pc, hidden, messages, chatInput, sendDisabled, alerts, shows, clicks>>
    /\ UNCHANGED widgetVars

\* variant of AlertText: the server's error text is dropped
AlertTextGeneric(res) == FieldsFallback

\* res.error || 'Please complete the required fields.'
AlertText(res) == OrText(res.error, FieldsFallback)

\* variant of OnboardingResolved: a failed submission brings the form back
OnboardingResolvedReshow(i, res) ==
    /\ i \in Pending("onboarding")
    /\ IF ~res.ok
       THEN /\ alerts' = Append(alerts, AlertText(res))
            /\ reqs' = Settle(reqs, i, "resolved", res, 0)
            /\ hidden' = ShowOnboarding(hidden)
            /\ shows' = Append(shows, "onboarding")
            /\ UNCHANGED messages
       ELSE /\ hidden' = ShowChat(hidden)
            /\ shows' = Append(shows, "chat")
            /\ messages' = AddMessage(messages, "assistant", ProfileText(res.profile_summary))
            /\ reqs' = Settle(reqs, i, "resolved", res, Len(messages) + 1)
            /\ UNCHANGED alerts
    /\ last' = Event("onboarding", IF res.ok THEN "ok" ELSE "failed", i,
                     IF res.ok THEN res.profile_summary ELSE res.error)
    /\ UNCHANGED <<dom, pc, chatInput, sendDisabled, clicks>>
    /\ UNCHANGED widgetVars

\* the continuation after apiOnboarding() resolves with body res
OnboardingResolved(i, res) ==
    /\ i \in Pending("onboarding")
    /\ IF ~res.ok
       THEN /\ alerts' = Append(alerts, AlertText(res))
            /\ reqs' = Settle(reqs, i, "resolved", res, 0)
            /\ UNCHANGED <<hidden, messages, shows>>
       ELSE /\ hidden' = ShowChat(hidden)
            /\ shows' = Append(shows, "chat")
            /\ messages' = AddMessage(messages, "assistant", ProfileText(res.profile_summary))
            /\ reqs' = Settle(reqs, i, "resolved", res, Len(messages) + 1)
            /\ UNCHANGED alerts
    /\ last' = Event("onboarding", IF res.ok THEN "ok" ELSE "failed", i,
                     IF res.ok THEN res.profile_summary ELSE res.error)
    /\ UNCHANGED <<dom, pc, chatInput, sendDisabled, clicks>>
    /\ UNCHANGED widgetVars

\* variant of OnboardingRejected: the rejection is caught and alerted
OnboardingRejectedCaught(i) ==
    /\ i \in Pending("onboarding")
    /\ reqs' = Settle(reqs, i, "rejected", NoResp, 0)
    /\ alerts' = Append(alerts, NetworkError)
    /\ last' = Event("onboarding", "rejected", i, <<>>)
    /\ UNCHANGED <<dom, pc, hidden, messages, chatInput, sendDisabled, shows, clicks>>
    /\ UNCHANGED widgetVars

\* the fetch rejects: nothing catches it, the listener's promise rejects
OnboardingRejected(i) ==
    /\ i \in Pending("onboarding")
    /\ reqs' = Settle(reqs, i, "rejected", NoResp, 0)
    /\ last' = Event("onboarding", "rejected", i, <<>>)
    /\ UNCHANGED <<dom, pc, hidden, messages, chatInput, sendDisabled, alerts, shows, clicks>>
    /\ UNCHANGED widgetVars

-----------------------------------------------------------------------------
(* The send flow: send(), called by the click listener of #sendBtn and by  *)
(* the keydown listener of #chatInput on Enter                             *)

TypeChat(s) ==
    /\ UserCanUse("chat")
    /\ chatInput # s
    /\ chatInput' = s
    /\ last' = Event("type", "", 0, s)
    /\ UNCHANGED <<dom, pc, hidden, messages, sendDisabled, reqs, alerts, shows, clicks>>
    /\ UNCHANGED widgetVars

\* send() up to the await of apiChat(text); via names the caller
Send(via) ==
    LET text == Trim(chatInput)
    IN  IF text = <<>>
        THEN /\ last' = Event("sendEmpty", via, 0, chatInput)
             /\ UNCHANGED <<chatInput, messages, sendDisabled, reqs>>
        ELSE /\ Len(reqs) < MaxReqs
             /\ chatInput' = <<>>
             /\ messages' = AddMessage(messages, "user", text)
             /\ sendDisabled' = TRUE
             /\ reqs' = Fetch(reqs, "chat", [message |-> text], Len(messages) + 1)
             /\ last' = Event("send", via, Len(reqs) + 1, chatInput)

\* a disabled button dispatches no click event
SendClick ==
    /\ ListenersRegistered
    /\ UserCanUse("chat")
    /\ ~sendDisabled
    /\ Send("click")
    /\ UNCHANGED <<dom, pc, hidden, alerts, shows, clicks>>
    /\ UNCHANGED widgetVars

EnterKey ==
    /\ ListenersRegistered
    /\ UserCanUse("chat")
    /\ Send("enter")
    /\ UNCHANGED <<dom, pc, hidden, alerts, shows, clicks>>
    /\ UNCHANGED widgetVars

\* variant of ReplyText: no fallback for a missing error text
ReplyTextNoFallback(res) == IF res.ok THEN res.reply ELSE res.error

\* the text of the assistant message send() appends for response res
ReplyText(res) == IF res.ok THEN res.reply ELSE OrText(res.error, ReplyFallback)

\* send() after apiChat() resolves with body res: try branch, then finally
ChatResolved(i, res) ==
    /\ i \in Pending("chat")
    /\ messages' = AddMessage(messages, "assistant", ReplyText(res))
    /\ sendDisabled' = FALSE
    /\ reqs' = Settle(reqs, i, "resolved", res, Len(messages) + 1)
    /\ last' = Event("chat", IF res.ok THEN "ok" ELSE "failed", i, ReplyText(res))
    /\ UNCHANGED <<dom, pc, hidden, chatInput, alerts, shows, clicks>>
    /\ UNCHANGED widgetVars

\* variant of ChatRejected: the catch branch appends nothing
ChatRejectedSilent(i) ==
    /\ i \in Pending("chat")
    /\ sendDisabled' = FALSE
    /\ reqs' = Settle(reqs, i, "rejected", NoResp, 0)
    /\ last' = Event("chat", "rejected", i, NetworkError)
    /\ UNCHANGED <<dom, pc, hidden, messages, chatInput, alerts, shows, clicks>>
    /\ UNCHANGED widgetVars

\* send() after apiChat() rejects: catch branch, then finally
ChatRejected(i) ==
    /\ i \in Pending("chat")
    /\ messages' = AddMessage(messages, "assistant", NetworkError)
    /\ sendDisabled' = FALSE
    /\ reqs' = Settle(reqs, i, "rejected", NoResp, Len(messages) + 1)
    /\ last' = Event("chat", "rejected", i, NetworkError)
    /\ UNCHANGED <<dom, pc, hidden, chatInput, alerts, shows, clicks>>
    /\ UNCHANGED widgetVars

-----------------------------------------------------------------------------
(* The documents the controller runs on, and the server's answers *)

Sections == {"onboarding", "chat"}

Female == <<"f", "e", "m", "a", "l", "e">>

FatLoss == <<"f", "a", "t", "_", "l", "o", "s", "s">>

Advanced == <<"a", "d", "v", "a", "n", "c", "e", "d">>

Attrs(min, max, step, type) == [min |-> min, max |-> max, step |-> step, type |-> type]

Button(target, step) == [target |-> target, step |-> step]

\* the page: three number inputs with their +/- buttons, six chip groups
PageInputs ==
    [i \in InputIds |->
        CASE i = "weight" -> Attrs(<<"3", "0">>, <<"2", "5", "0">>, <<"1">>, "number")
          [] i = "height" -> Attrs(<<"1", "0", "0">>, <<"2", "3", "0">>, <<"1">>, "number")
          [] i = "age"    -> Attrs(<<"1", "0">>, <<"1", "0", "0">>, <<"1">>, "number")]

PageButtons == {Button(i, st) : i \in InputIds, st \in {<<"1">>, <<"-", "1">>}}

PageChips ==
    [g \in GroupIds |->
        CASE g = "gender"              -> <<Male, Female>>
          [] g = "main_goal"           -> <<Hypertrophy, FatLoss>>
          [] g = "experience"          -> <<Beginner, Advanced>>
          [] g = "days_per_week"       -> <<<<"3">>, <<"4">>>>
          [] g = "minutes_per_workout" -> <<<<"4", "5">>, <<"6", "0">>>>
          [] g = "injuries_yes_no"     -> <<No, Yes>>]

Page == [inputs |-> PageInputs, buttons |-> PageButtons, chips |-> PageChips]

PageValues ==
    [i \in InputIds \cup {"injuries_details"} |->
        CASE i = "weight" -> <<"7", "0">>
          [] i = "height" -> <<"1", "7", "0">>
          [] i = "age"    -> <<"2", "5">>
          [] OTHER        -> <<>>]

Summaries == {<<"5x/week hypertrophy plan">>}

ProfileResponses ==
    {Resp(ok, pr, sm, Undefined, Undefined) :
        ok \in BOOLEAN, pr \in BOOLEAN, sm \in Summaries}

OnboardingResponses ==
    {Resp(TRUE, FALSE, sm, Undefined, Undefined) : sm \in Summaries}
    \cup {Resp(FALSE, FALSE, Undefined, Undefined, e) :
            e \in {<<"Age is required">>, Undefined}}

ChatResponses ==
    {Resp(TRUE, FALSE, Undefined, <<"Hi there">>, Undefined)}
    \cup {Resp(FALSE, FALSE, Undefined, Undefined, e) :
            e \in {<<"Model unavailable">>, Undefined}}

ChatTexts == {<<" ", "\f">>, <<" ", "h", "i", " ">>}

DetailTexts == {<<" ", "k", "n", "e", "e", " ">>}

TypeDetails(s) ==
    /\ UserCanUse("onboarding")
    /\ clicks < MaxClicks
    /\ value["injuries_details"] # s
    /\ clicks' = clicks + 1
    /\ value' = [value EXCEPT !["injuries_details"] = s]
    /\ last' = Event("typeDetails", "", 0, s)
    /\ UNCHANGED <<dom, active, chipHandlers, stepHandlers, picked>>
    /\ UNCHANGED flowVars

-----------------------------------------------------------------------------
(* The program *)

InitOn(d, vals, h) ==
    /\ dom = d
    /\ value = vals
    /\ active = [g \in DOMAIN d.chips |-> {}]
    /\ chipHandlers = [g \in DOMAIN d.chips |-> 0]
    /\ stepHandlers = FALSE
    /\ pc = "loading"
    /\ hidden = h
    /\ messages = <<>>
    /\ chatInput = <<>>
    /\ sendDisabled = FALSE
    /\ reqs = <<>>
    /\ alerts = <<>>
    /\ shows = <<>>
    /\ clicks = 0
    /\ picked = [g \in DOMAIN d.chips |-> 0]
    /\ last = NoEvent

Init == \E h \in [Sections -> BOOLEAN] : InitOn(Page, PageValues, h)

Next ==
    \/ DOMContentLoaded
    \/ \E p \in ProfileResponses : ProfileResolved(p)
    \/ ProfileRejected
    \/ \E g \in GroupIds, c \in 1..2 : ChipClick(g, c)
    \/ \E b \in dom.buttons : StepperClick(b)
    \/ \E s \in DetailTexts : TypeDetails(s)
    \/ StartClick
    \/ \E i \in 1..Len(reqs), r \in OnboardingResponses : OnboardingResolved(i, r)
    \/ \E i \in 1..Len(reqs) : OnboardingRejected(i)
    \/ \E s \in ChatTexts : TypeChat(s)
    \/ SendClick
    \/ EnterKey
    \/ \E ctl \in {"start", "send", "enter"} : UnheardEvent(ctl)
    \/ \E i \in 1..Len(reqs), r \in ChatResponses : ChatResolved(i, r)
    \/ \E i \in 1..Len(reqs) : ChatRejected(i)

Spec == Init /\ [][Next]_vars

\* the program while the user leaves the onboarding form as configured
FlowNext ==
    \/ DOMContentLoaded
    \/ \E p \in ProfileResponses : ProfileResolved(p)
    \/ ProfileRejected
    \/ StartClick
    \/ \E i \in 1..Len(reqs), r \in OnboardingResponses : OnboardingResolved(i, r)
    \/ \E i \in 1..Len(reqs) : OnboardingRejected(i)
    \/ \E s \in ChatTexts : TypeChat(s)
    \/ SendClick
    \/ EnterKey
    \/ \E ctl \in {"start", "send", "enter"} : UnheardEvent(ctl)
    \/ \E i \in 1..Len(reqs), r \in ChatResponses : ChatResolved(i, r)
    \/ \E i \in 1..Len(reqs) : ChatRejected(i)

SpecFlow == Init /\ [][FlowNext]_vars

\* the onboarding form: the user picks chips and presses start
FormNext ==
    \/ DOMContentLoaded
    \/ \E p \in ProfileResponses : ProfileResolved(p)
    \/ \E g \in GroupIds, c \in 1..2 : ChipClick(g, c)
    \/ StartClick

SpecForm == Init /\ [][FormNext]_vars

-----------------------------------------------------------------------------
(* The view router on its own: showOnboarding() and showChat() called in   *)
(* any order, from any visibility the markup may give the two sections     *)

CallShow(which) ==
    /\ Len(shows) < MaxCalls
    /\ hidden' = IF which = "chat" THEN ShowChat(hidden) ELSE ShowOnboarding(hidden)
    /\ shows' = Append(shows, which)
    /\ last' = Event("show", which, 0, <<>>)
    /\ UNCHANGED <<dom, pc, messages, chatInput, sendDisabled, reqs, alerts, clicks>>
    /\ UNCHANGED widgetVars

ViewNext == \E which \in Sections : CallShow(which)

SpecView == Init /\ [][ViewNext]_vars

-----------------------------------------------------------------------------
(* Steppers on their own: the attributes, the start value and the          *)
(* multipliers of the age stepper are drawn from bounded sets              *)

OnboardingShown == [s \in Sections |-> s = "chat"]

AttrMins == {<<>>, <<"0">>, <<"5">>, <<"x">>}

AttrMaxs == {<<>>, <<"3">>, <<"x">>}

AttrSteps == {<<>>, <<"2">>, <<"0">>, <<"x">>}

StartValues == {<<>>, <<"1">>, <<"9", "9", "9", "8">>, <<"-", "9", "9", "9", "8">>}

Multipliers == {<<>>, <<"1">>, <<"-", "1">>, <<"3">>}

StepperPage(a) ==
    [inputs  |-> [PageInputs EXCEPT !["age"] = a],
     buttons |-> {Button("age", m) : m \in Multipliers},
     chips   |-> PageChips]

StepperInit ==
    \E mn \in AttrMins, mx \in AttrMaxs, st \in AttrSteps,
       ty \in {"number", "text"}, v \in StartValues :
        InitOn(StepperPage(Attrs(mn, mx, st, ty)),
               [PageValues EXCEPT !["age"] = v], OnboardingShown)

StepperNext ==
    \/ DOMContentLoaded
    \/ \E b \in dom.buttons : StepperClick(b)

SpecStepper == StepperInit /\ [][StepperNext]_vars

-----------------------------------------------------------------------------
(* Chip groups on their own: setChipGroupSingle called with any default,   *)
(* on documents with two containers                                        *)

GenderMarkups == {<<Male, Female>>, <<Female, Male, Male>>, <<Female>>}

ChipPage(m) ==
    [inputs  |-> PageInputs,
     buttons |-> PageButtons,
     chips   |-> [g \in {"gender", "injuries_yes_no"} |->
                    IF g = "gender" THEN m ELSE PageChips[g]]]

ChipDefaults == {Null, <<>>, Male, Female, No}

\* one call of setChipGroupSingle(g, defaultVal); it may be called again on
\* a group that is already configured
SetChipGroupSingle(g, defaultVal) ==
    /\ g \in DOMAIN dom.chips => chipHandlers[g] < MaxConfigs
    /\ active' = ConfigureActive(active, g, defaultVal)
    /\ chipHandlers' = ConfigureHandlers(chipHandlers, g)
    /\ last' = Event("configure", g, 0, defaultVal)
    /\ UNCHANGED <<dom, value, stepHandlers, clicks, picked>>
    /\ UNCHANGED flowVars

ChipInit == \E m \in GenderMarkups : InitOn(ChipPage(m), PageValues, OnboardingShown)

ChipNext ==
    \/ \E g \in GroupIds, d \in ChipDefaults : SetChipGroupSingle(g, d)
    \/ \E g \in GroupIds, c \in 1..3 : ChipClick(g, c)

SpecChips == ChipInit /\ [][ChipNext]_vars

-----------------------------------------------------------------------------
(* Properties *)

\* the groups setChipGroupSingle was called on exactly once
ConfiguredOnce == {g \in DOMAIN chipHandlers : chipHandlers[g] = 1}

\* C1: in every chip group configured by setChipGroupSingle at most one chip
\* is active in every state reached from the configuration by chip clicks,
\* and right after a click on chip X of a group, X is the one active chip of
\* that group, whatever was active before.
C1_SingleActive ==
    /\ \A g \in ConfiguredOnce : Cardinality(active[g]) <= 1
    /\ last.ev = "chip" => active[last.a] = {last.n}

\* a second click in the gender group moved the marker to chip 3
C1_Witness ==
    /\ last.ev = "chip" /\ last.a = "gender" /\ last.n = 3
    /\ clicks >= 2
    /\ chipHandlers["gender"] = 1
    /\ active["gender"] = {3}

\* the numbers of the age stepper are all integers (no NaN among them)
AgeIntegers ==
    /\ ~InputMin(dom.inputs["age"]).nan
    /\ ~InputMax(dom.inputs["age"]).nan
    /\ ~InputStep(dom.inputs["age"]).nan
    /\ ~ParseInt(OrElse(last.text, <<"0">>)).nan

AfterAgeClick == last.ev = "stepper" /\ last.a = "age"

\* C2 as stated: after a stepper click with integer min, max, step and
\* multiplier the value v satisfies min <= v <= max.
C2_Original ==
    (AfterAgeClick /\ AgeIntegers) =>
        /\ InputMin(dom.inputs["age"]).v <= InputVal(value["age"]).v
        /\ InputVal(value["age"]).v <= InputMax(dom.inputs["age"]).v

\* C2 amended: after a stepper click with integer min, max, step and
\* multiplier the value v satisfies v <= max, and min <= v whenever min <= max.
C2_Clamped ==
    (AfterAgeClick /\ AgeIntegers) =>
        /\ ~InputVal(value["age"]).nan
        /\ InputVal(value["age"]).v <= InputMax(dom.inputs["age"]).v
        /\ InputMin(dom.inputs["age"]).v <= InputMax(dom.inputs["age"]).v
             => InputMin(dom.inputs["age"]).v <= InputVal(value["age"]).v

\* three clicks on the +3 button with min 0, max 3, step 2 from 9998 ended at 3
C2_Witness ==
    /\ AfterAgeClick /\ AgeIntegers
    /\ clicks >= 2
    /\ dom.inputs["age"].min = <<"0">> /\ dom.inputs["age"].max = <<"3">>
    /\ dom.inputs["age"].step = <<"2">>
    /\ value["age"] = <<"3">>

\* C3: after any non-empty sequence of showOnboarding()/showChat() calls
\* exactly the section named by the last call is visible.
C3_LastCallWins ==
    shows # <<>> => hidden = [s \in Sections |-> s # shows[Len(shows)]]

\* showChat() after showOnboarding(), from a page that showed neither section
C3_Witness ==
    /\ Len(shows) >= 2
    /\ shows[Len(shows)] = "chat" /\ shows[Len(shows) - 1] = "onboarding"
    /\ ~hidden["chat"] /\ hidden["onboarding"]

\* sub occurs in text as a contiguous run
Contains(text, sub) ==
    \E i \in 1..(Len(text) + 1) :
        /\ i + Len(sub) - 1 <= Len(text)
        /\ SubSeq(text, i, i + Len(sub) - 1) = sub

ProfileDone == reqs # <<>> /\ reqs[1].kind = "profile" /\ reqs[1].state = "resolved"

JustInitialized == last.ev = "profile" /\ ProfileDone

\* C4: when the profile request resolved with ok true and a present profile,
\* at the end of initialization the chat view is visible, the onboarding view
\* hidden, and the transcript is one assistant message containing the summary.
C4_ProfileShowsChat ==
    (JustInitialized /\ reqs[1].resp.ok /\ reqs[1].resp.profile) =>
        /\ pc = "ready"
        /\ ~hidden["chat"] /\ hidden["onboarding"]
        /\ Len(messages) = 1
        /\ messages[1].role = "assistant"
        /\ Contains(messages[1].text, reqs[1].resp.profile_summary)

C4_Witness ==
    /\ JustInitialized /\ reqs[1].resp.ok /\ reqs[1].resp.profile
    /\ Len(messages) = 1
    /\ ~hidden["chat"]

\* C5: when the profile request resolved with ok false or without a profile,
\* at the end of initialization the onboarding view is visible, the chat view
\* hidden, and the transcript empty.
C5_NoProfileShowsOnboarding ==
    (JustInitialized /\ ~(reqs[1].resp.ok /\ reqs[1].resp.profile)) =>
        /\ pc = "ready"
        /\ ~hidden["onboarding"] /\ hidden["chat"]
        /\ messages = <<>>

\* ok true without a profile
C5_Witness ==
    /\ JustInitialized /\ reqs[1].resp.ok /\ ~reqs[1].resp.profile
    /\ ~hidden["onboarding"]
    /\ messages = <<>>

\* the last event is an onboarding response with ok false
JustFailedOnboarding ==
    /\ last.ev = "onboarding"
    /\ reqs[last.n].state = "resolved"
    /\ ~reqs[last.n].resp.ok

\* the text the user is to be alerted with for response r
ExpectedAlert(r) == IF r.error = Undefined THEN FieldsFallback ELSE r.error

\* every message of the transcript is accounted for by a chat request, by a
\* completed chat request, or by a profile or onboarding summary
MessagesAccounted ==
    Len(messages) = Cardinality(Issued("chat"))
                    + Cardinality({i \in 1..Len(reqs) : reqs[i].replyAt > 0})

\* C6 as stated: after an onboarding response with ok false the user has been
\* alerted with the error text (or the fallback), the onboarding view is
\* visible, the chat view is hidden and no message was appended.
C6_Original ==
    JustFailedOnboarding =>
        /\ alerts # <<>>
        /\ alerts[Len(alerts)] = ExpectedAlert(reqs[last.n].resp)
        /\ ~hidden["onboarding"] /\ hidden["chat"]
        /\ MessagesAccounted

\* the step that handles an onboarding response with ok false
FailedOnboardingStep ==
    /\ last' # last
    /\ last'.ev = "onboarding"
    /\ reqs'[last'.n].state = "resolved"
    /\ ~reqs'[last'.n].resp.ok

\* C6 amended: an onboarding response with ok false alerts the user with the
\* error text (or the fallback), appends no message and leaves both views as
\* they were; the onboarding view is visible and the chat view hidden
\* afterwards unless showChat() had been called before.
C6_FailureKeepsView ==
    [][FailedOnboardingStep =>
        /\ alerts' = Append(alerts, ExpectedAlert(reqs'[last'.n].resp))
        /\ messages' = messages
        /\ hidden' = hidden
        /\ (\A k \in 1..Len(shows) : shows[k] # "chat")
              => (~hidden'["onboarding"] /\ hidden'["chat"])]_vars

\* a failed response with the server's text, with the onboarding view still up
C6_Witness ==
    /\ JustFailedOnboarding
    /\ reqs[last.n].resp.error = <<"Age is required">>
    /\ alerts # <<>> /\ alerts[Len(alerts)] = <<"Age is required">>
    /\ ~hidden["onboarding"] /\ hidden["chat"]

AllSpace(s) == \A k \in 1..Len(s) : IsSpace(s[k])

\* t is s without its leading and trailing white space, and is not empty
IsTrimmed(t, s) ==
    \E i \in 1..Len(s), j \in 1..Len(s) :
        /\ i <= j
        /\ ~IsSpace(s[i]) /\ ~IsSpace(s[j])
        /\ \A k \in 1..(i - 1) : IsSpace(s[k])
        /\ \A k \in (j + 1)..Len(s) : IsSpace(s[k])
        /\ t = SubSeq(s, i, j)

ChatReqs == Issued("chat")

\* the text of the assistant message that answers chat request i
ExpectedReply(r) ==
    CASE r.state = "rejected" -> NetworkError
      [] r.resp.ok            -> r.resp.reply
      [] r.resp.error = Undefined -> ReplyFallback
      [] OTHER                -> r.resp.error

\* C7: a send with non-empty trimmed text t issues a chat request with body
\* {message: t}, its user message t is in the transcript from the moment the
\* request exists, an ok response with reply r puts an assistant message r
\* after that user message, and the send control is enabled when a send ends.
C7_SendRoundTrip ==
    /\ last.ev = "send" =>
          /\ last.n = Len(reqs)
          /\ reqs[last.n].kind = "chat" /\ reqs[last.n].state = "pending"
          /\ IsTrimmed(reqs[last.n].body.message, last.text)
          /\ reqs[last.n].at = Len(messages)
    /\ \A i \in ChatReqs :
          /\ reqs[i].at \in 1..Len(messages)
          /\ messages[reqs[i].at].role = "user"
          /\ messages[reqs[i].at].text = reqs[i].body.message
          /\ (reqs[i].state = "resolved" /\ reqs[i].resp.ok) =>
                /\ reqs[i].replyAt \in (reqs[i].at + 1)..Len(messages)
                /\ messages[reqs[i].replyAt].role = "assistant"
                /\ messages[reqs[i].replyAt].text = reqs[i].resp.reply
    /\ last.ev = "chat" => ~sendDisabled

\* " hi " was sent as "hi" and answered "Hi there"
C7_Witness ==
    /\ last.ev = "chat" /\ last.a = "ok"
    /\ reqs[last.n].body.message = <<"h", "i">>
    /\ messages[Len(messages)].text = <<"Hi there">>
    /\ messages[Len(messages) - 1].role = "user"
    /\ ~sendDisabled

\* a step in which send() ran
SendStep == last' # last /\ last'.ev \in {"send", "sendEmpty"}

\* C8: a send while the chat input is empty or white space only issues no
\* request, appends no message and leaves the input value, the transcript and
\* the send control's disabled state unchanged.
C8_EmptySendNoOp ==
    [][(SendStep /\ AllSpace(chatInput)) =>
          UNCHANGED <<chatInput, messages, sendDisabled, reqs>>]_vars

\* Enter on a white-space input while a request is in flight
C8_Witness ==
    /\ last.ev = "sendEmpty" /\ last.a = "enter"
    /\ chatInput = <<" ", "\f">>
    /\ sendDisabled
    /\ Pending("chat") # {}

\* a step in which chat request last'.n completed
ChatDoneStep == last' # last /\ last'.ev = "chat"

\* C9: the completion of a chat request, by ok true, ok false or a network
\* failure, appends exactly one assistant message (the reply; the server
\* error or 'Error generating reply.'; 'Network error.') and leaves the send
\* control enabled.
C9_CompletionAnswers ==
    [][ChatDoneStep =>
          /\ reqs[last'.n].state = "pending" /\ reqs'[last'.n].state # "pending"
          /\ Len(messages') = Len(messages) + 1
          /\ SubSeq(messages', 1, Len(messages)) = messages
          /\ messages'[Len(messages')].role = "assistant"
          /\ messages'[Len(messages')].text = ExpectedReply(reqs'[last'.n])
          /\ ~sendDisabled']_vars

\* an ok-false response without error text was answered with the fallback
C9_Witness ==
    /\ last.ev = "chat" /\ last.a = "failed"
    /\ reqs[last.n].resp.error = Undefined
    /\ messages[Len(messages)].text = ReplyFallback
    /\ ~sendDisabled

\* C10: whenever a chat request is in flight the send control is disabled.
C10_DisabledWhileInFlight == Pending("chat") # {} => sendDisabled

\* the step that handles an onboarding response with ok true
OkOnboardingStep ==
    /\ last' # last
    /\ last'.ev = "onboarding"
    /\ reqs'[last'.n].state = "resolved"
    /\ reqs'[last'.n].resp.ok

\* C11: an onboarding response with ok true leaves the chat view visible and
\* the onboarding view hidden, and appends exactly one message, an assistant
\* message containing the returned profile_summary.
C11_SuccessShowsChat ==
    [][OkOnboardingStep =>
          /\ ~hidden'["chat"] /\ hidden'["onboarding"]
          /\ Len(messages') = Len(messages) + 1
          /\ SubSeq(messages', 1, Len(messages)) = messages
          /\ messages'[Len(messages')].role = "assistant"
          /\ Contains(messages'[Len(messages')].text,
                      reqs'[last'.n].resp.profile_summary)]_vars

\* an ok response took the page from the onboarding view to the chat view
C11_Witness ==
    /\ last.ev = "onboarding" /\ last.a = "ok"
    /\ reqs[last.n].resp.ok
    /\ shows = <<"onboarding", "chat">>
    /\ ~hidden["chat"] /\ hidden["onboarding"]
    /\ Len(messages) = 1

\* C12: the transcript is append-only: in every step the transcript before
\* the step is a prefix of the transcript after it.
C12_AppendOnly ==
    [][/\ Len(messages') >= Len(messages)
       /\ SubSeq(messages', 1, Len(messages)) = messages]_vars

\* a transcript built by initialization, a send and its answer
C12_Witness ==
    /\ Len(messages) >= 3
    /\ messages[1].role = "assistant"
    /\ messages[2].role = "user"
    /\ messages[3].role = "assistant"

\* the last event is the network-level failure of an onboarding submission
JustRejectedOnboarding ==
    /\ last.ev = "onboarding"
    /\ reqs[last.n].state = "rejected"

\* every alert is accounted for by an onboarding response with ok false
AlertsAccounted ==
    Len(alerts) = Cardinality({i \in Issued("onboarding") :
                                  reqs[i].state = "resolved" /\ ~reqs[i].resp.ok})

\* C13 as stated: after the network-level failure of an onboarding submission
\* no alert was shown and no message appended for it, the onboarding view is
\* visible and the chat view hidden, and the start listener is still there.
C13_Original ==
    JustRejectedOnboarding =>
        /\ AlertsAccounted
        /\ MessagesAccounted
        /\ ~hidden["onboarding"] /\ hidden["chat"]
        /\ pc = "ready"

\* the step in which an onboarding submission fails at the network level
RejectedOnboardingStep ==
    /\ last' # last
    /\ last'.ev = "onboarding"
    /\ reqs'[last'.n].state = "rejected"

\* C13 amended: the network-level failure of an onboarding submission shows
\* no alert, appends no message and leaves both views as they were (the
\* onboarding view visible and the chat view hidden unless showChat() had been
\* called before); while the onboarding view is visible the start button
\* still takes a click that issues a new submission.
C13_RejectionKeepsView ==
    /\ [][RejectedOnboardingStep =>
            /\ reqs[last'.n].state = "pending"
            /\ alerts' = alerts
            /\ messages' = messages
            /\ hidden' = hidden
            /\ pc' = "ready"
            /\ (\A k \in 1..Len(shows) : shows[k] # "chat")
                  => (~hidden'["onboarding"] /\ hidden'["chat"])]_vars
    /\ []((JustRejectedOnboarding /\ ~hidden["onboarding"] /\ Len(reqs) < MaxReqs)
            => ENABLED StartClick)

\* a submission failed at the network level and a new one was issued after it
C13_Witness ==
    /\ last.ev = "start"
    /\ \E i \in Issued("onboarding") : i < last.n /\ reqs[i].state = "rejected"
    /\ reqs[last.n].state = "pending"
    /\ alerts = <<>> /\ messages = <<>>
    /\ ~hidden["onboarding"] /\ hidden["chat"]

\* a step in which a button of the age stepper was clicked
AgeClickStep ==
    /\ clicks' = clicks + 1
    /\ last'.ev \in {"stepper", "stepperThrew"}
    /\ last'.a = "age"

\* the number an attribute stands for when a default replaces an unset or a
\* non-numeric one
OrDefault(attr, default) ==
    IF attr = <<>> \/ ParseInt(attr).nan THEN Num(default) ELSE ParseInt(attr)

\* C14: a stepper click writes clamp(currentValue + multiplier*step, min, max)
\* with min, max, step standing for -9999, 9999, 1 when the attribute is unset
\* or non-numeric and the multiplier for 0 when absent, and never throws.
C14_Original ==
    [][AgeClickStep =>
          /\ last'.ev = "stepper"
          /\ value'["age"] =
                NumToStr(Clamp(Add(InputVal(value["age"]),
                                   Mul(OrDefault(last'.text, 0),
                                       OrDefault(dom.inputs["age"].step, 1))),
                               OrDefault(dom.inputs["age"].min, 0 - 9999),
                               OrDefault(dom.inputs["age"].max, 9999)))]_vars

\* C15: at most one chat request is in flight in every reachable state.
C15_OneInFlight == Cardinality(Pending("chat")) <= 1

\* the position of the first user message, Len(messages) + 1 if there is none
FirstUser ==
    IF \E j \in 1..Len(messages) : messages[j].role = "user"
    THEN CHOOSE j \in 1..Len(messages) :
            /\ messages[j].role = "user"
            /\ \A k \in 1..(j - 1) : messages[k].role # "user"
    ELSE Len(messages) + 1

\* C16: after the initial assistant summary messages, user and assistant
\* messages alternate strictly, and the assistant message of a chat send is
\* the message directly after that send's user message.
C16_Alternation ==
    /\ \A j \in FirstUser..Len(messages) :
          (messages[j].role = "user") <=> ((j - FirstUser) % 2 = 0)
    /\ \A i \in ChatReqs :
          reqs[i].state # "pending" => reqs[i].replyAt = reqs[i].at + 1

-----------------------------------------------------------------------------
\* the default the specification prescribes for each chip group
PrescribedDefault(g) ==
    CASE g = "gender"              -> <<"m", "a", "l", "e">>
      [] g = "main_goal"           -> <<"h", "y", "p", "e", "r", "t", "r", "o", "p", "h", "y">>
      [] g = "experience"          -> <<"b", "e", "g", "i", "n", "n", "e", "r">>
      [] g = "days_per_week"       -> <<"4">>
      [] g = "minutes_per_workout" -> <<"6", "0">>
      [] g = "injuries_yes_no"     -> <<"n", "o">>

\* the value of the chip clicked last in group g, the default if none was
Chosen(g) ==
    IF picked[g] = 0 THEN PrescribedDefault(g) ELSE dom.chips[g][picked[g]]

\* C17: right after a start click, every chip field of the request body is
\* derived from the chip clicked last in its group, or from the prescribed
\* default when no chip of the group was clicked; days and minutes are the
\* number that value spells (a JSON number is its decimal digits), and
\* injuries_yes_no is true exactly when that value is 'yes'.
C17_PayloadReflectsChips ==
    last.ev = "start" =>
        LET b == reqs[last.n].body
        IN  /\ b.gender = Chosen("gender")
            /\ b.main_goal = Chosen("main_goal")
            /\ b.experience = Chosen("experience")
            /\ b.days_per_week = Chosen("days_per_week")
            /\ b.minutes_per_workout = Chosen("minutes_per_workout")
            /\ b.injuries_yes_no = (Chosen("injuries_yes_no") = <<"y", "e", "s">>)

\* a start click after the user picked 'yes' for injuries and 3 days a week,
\* and left the gender group alone
C17_Witness ==
    /\ last.ev = "start"
    /\ picked["injuries_yes_no"] = 2
    /\ picked["days_per_week"] = 1
    /\ picked["gender"] = 0
    /\ reqs[last.n].body.injuries_yes_no
    /\ reqs[last.n].body.days_per_week = <<"3">>
    /\ reqs[last.n].body.gender = <<"m", "a", "l", "e">>

-----------------------------------------------------------------------------
MessagesOf(role) == {j \in 1..Len(messages) : messages[j].role = role}

CompletedChat == {i \in Issued("chat") : reqs[i].state # "pending"}

OkOnboarding ==
    {i \in Issued("onboarding") : reqs[i].state = "resolved" /\ reqs[i].resp.ok}

ProfileFound ==
    {i \in Issued("profile") :
        reqs[i].state = "resolved" /\ reqs[i].resp.ok /\ reqs[i].resp.profile}

\* C18: in every reachable state there are as many chat requests as user
\* messages, as many assistant messages as completed chat requests plus
\* ok-true onboarding responses plus one for a profile request answered ok
\* with a profile, and exactly one profile request once the page has loaded
\* (none before).
C18_RequestCounts ==
    /\ Cardinality(Issued("chat")) = Cardinality(MessagesOf("user"))
    /\ Cardinality(MessagesOf("assistant"))
          = Cardinality(CompletedChat) + Cardinality(OkOnboarding)
            + Cardinality(ProfileFound)
    /\ Cardinality(MessagesOf("user")) + Cardinality(MessagesOf("assistant"))
          = Len(messages)
    /\ Cardinality(Issued("profile")) = IF pc = "loading" THEN 0 ELSE 1

\* an ok onboarding response and then a chat request that failed at the
\* network level: two assistant messages, one user message
C18_Witness ==
    /\ OkOnboarding # {}
    /\ \E i \in CompletedChat : reqs[i].state = "rejected"
    /\ Cardinality(MessagesOf("assistant")) = 2
    /\ Cardinality(MessagesOf("user")) = 1

-----------------------------------------------------------------------------
ProfileFailed == reqs # <<>> /\ reqs[1].kind = "profile" /\ reqs[1].state = "rejected"

NothingDoneYet ==
    /\ Issued("onboarding") \cup Issued("chat") = {}
    /\ messages = <<>>
    /\ alerts = <<>>
    /\ shows = <<>>
    /\ ~sendDisabled

UnheardStep == last'.ev = "unheard" /\ ~ProfileDone

\* C19: until the profile request has resolved no onboarding or chat request
\* exists and nothing has been shown or appended; a start click, send click
\* or Enter press made before that changes nothing; and once the profile
\* request has failed at the network level no start click, send click or
\* Enter press is ever handled, no view function has been called and no
\* onboarding or chat request is ever issued.
C19_NothingBeforeProfile ==
    /\ [](~ProfileDone => NothingDoneYet)
    /\ [][UnheardStep => /\ UNCHANGED flowVars
                         /\ UNCHANGED widgetVars]_vars
    /\ [](ProfileFailed => /\ ~ENABLED StartClick
                           /\ ~ENABLED SendClick
                           /\ ~ENABLED EnterKey)

\* the profile request failed, the user typed a message and pressed Enter
C19_Witness ==
    /\ ProfileFailed
    /\ last.ev = "unheard"
    /\ last.a = "enter"
    /\ Trim(chatInput) # <<>>
    /\ Len(reqs) = 1

-----------------------------------------------------------------------------
ChatMadeVisible == \E k \in 1..Len(shows) : shows[k] = "chat"

\* C20: a step taken after showChat() has been called never calls
\* showOnboarding() and leaves the onboarding view hidden and the chat view
\* visible, whatever start clicks, sends and responses follow.
C20_OneWaySwitch ==
    [][ChatMadeVisible =>
          /\ \A k \in (Len(shows) + 1)..Len(shows') : shows'[k] = "chat"
          /\ SubSeq(shows', 1, Len(shows)) = shows
          /\ hidden["onboarding"] /\ hidden'["onboarding"]
          /\ ~hidden["chat"] /\ ~hidden'["chat"]]_vars

\* a failed onboarding response that arrived after the chat was shown and a
\* chat message was sent
C20_Witness ==
    /\ ChatMadeVisible
    /\ last.ev = "onboarding"
    /\ last.a = "failed"
    /\ Issued("chat") # {}
    /\ hidden["onboarding"]

====
